---------------------------- MODULE Spec2Model ----------------------------
(***************************************************************************)
(* State-machine model of tts_batch.py: the batch text-to-speech pipeline  *)
(* (planner, size guard, synthesis with retry, merge, exit status).        *)
(*                                                                         *)
(* Text is modelled as sequences of code points (so that lexical order of  *)
(* file names is the order Python's sorted() uses).  A sentence is         *)
(* modelled by its position in the document and its character counts:     *)
(* "plain" characters that html.escape leaves alone and "amp" characters   *)
(* ('&') that it rewrites to the five characters "&amp;".  Time is in      *)
(* milliseconds.                                                           *)
(***************************************************************************)
EXTENDS Integers, Sequences, FiniteSets, TLC

(***************************************************************************)
(* Bounds of the model.                                                    *)
(***************************************************************************)
\* retries is drawn from 0..MaxRetries
MaxRetries == 2
\* at most MaxFiles input files match the glob in one run
MaxFiles == 2
\* the pass counter of the size-guard loop stops counting here
MaxPasses == 3
\* documents of PlanSpec have at most MaxSents sentences
MaxSents == 4
\* the document of LongSpec has LongChunks one-sentence chunks
LongChunks == 10

(***************************************************************************)
(* Program constants.                                                      *)
(***************************************************************************)
SSML_MAX_LEN == 4500
DEFAULT_MAX_SENTS == 20
DEFAULT_MAX_CHARS == 900
DEFAULT_BREAK_MS == 250
\* len("30%"), RATE_DEFAULT, which html.escape leaves unchanged
RATE_LEN == 3
\* len("en-US-JennyNeural"), len("en-US-GuyNeural")
VOICE_HOST_LEN == 17
VOICE_SCI_LEN == 15
\* --retry-base 0.6 s and --retry-jitter 0.4 s, in milliseconds
RETRY_BASE_MS == 600
RETRY_JITTER_MS == 400
\* slugify keeps the first 80 characters
SLUG_MAX == 80
\* a body shorter than this is skipped; so is a file of fewer than MIN_LINES lines
MIN_BODY == 20
MIN_LINES == 3

(***************************************************************************)
(* Generic helpers.                                                        *)
(***************************************************************************)
Min(a, b) == IF a <= b THEN a ELSE b

RECURSIVE SumSeq(_)
SumSeq(s) == IF s = <<>> THEN 0 ELSE Head(s) + SumSeq(Tail(s))

RECURSIVE Concat(_)
Concat(ss) == IF ss = <<>> THEN <<>> ELSE Head(ss) \o Concat(Tail(ss))

RECURSIVE Pow2(_)
Pow2(n) == IF n <= 0 THEN 1 ELSE 2 * Pow2(n - 1)

\* str(n) of a natural number, as code points
RECURSIVE Digits(_)
Digits(n) == IF n < 10 THEN <<48 + n>> ELSE Digits(n \div 10) \o <<48 + (n % 10)>>

IsDigit(c) == c >= 48 /\ c <= 57

\* s < t in Python's string order (code point by code point, a prefix first)
RECURSIVE StrLess(_, _)
StrLess(s, t) ==
    IF t = <<>> THEN FALSE
    ELSE IF s = <<>> THEN TRUE
    ELSE IF Head(s) # Head(t) THEN Head(s) < Head(t)
    ELSE StrLess(Tail(s), Tail(t))

\* s.endswith(t)
EndsWith(s, t) ==
    Len(s) >= Len(t) /\ SubSeq(s, Len(s) - Len(t) + 1, Len(s)) = t

\* the literals of the file names
UNDERSCORE == <<95>>
PART == <<95, 112, 97, 114, 116>>
DOT_MP3 == <<46, 109, 112, 51>>
FULL_MP3 == <<95, 102, 117, 108, 108>> \o DOT_MP3
EPISODE == <<101, 112, 105, 115, 111, 100, 101>>

(***************************************************************************)
(* slugify (lines 74-76).                                                  *)
(***************************************************************************)
RECURSIVE StripLeft(_, _)
StripLeft(s, cs) ==
    IF s # <<>> /\ Head(s) \in cs THEN StripLeft(Tail(s), cs) ELSE s

RECURSIVE StripRight(_, _)
StripRight(s, cs) ==
    IF s # <<>> /\ s[Len(s)] \in cs THEN StripRight(SubSeq(s, 1, Len(s) - 1), cs) ELSE s

Strip(s, cs) == StripRight(StripLeft(s, cs), cs)

WHITESPACE == {9, 10, 13, 32}

Lower(c) == IF c >= 65 /\ c <= 90 THEN c + 32 ELSE c

\* [a-z0-9_-]
IsSlugChar(c) == (c >= 97 /\ c <= 122) \/ IsDigit(c) \/ c = 95 \/ c = 45

\* re.sub(r"[^a-z0-9_-]+", "-", s): each maximal run of other characters becomes one "-"
RECURSIVE SubRuns(_, _)
SubRuns(s, inRun) ==
    IF s = <<>> THEN <<>>
    ELSE IF IsSlugChar(Head(s)) THEN <<Head(s)>> \o SubRuns(Tail(s), FALSE)
    ELSE IF inRun THEN SubRuns(Tail(s), TRUE)
    ELSE <<45>> \o SubRuns(Tail(s), TRUE)

slugify(s) ==
    LET t == Strip(s, WHITESPACE)
        l == [i \in 1..Len(t) |-> IF Lower(t[i]) = 32 THEN 45 ELSE Lower(t[i])]
        r == SubRuns(l, FALSE)
        c == SubSeq(r, 1, Min(SLUG_MAX, Len(r)))
        d == Strip(c, {45})
    IN  IF d = <<>> THEN EPISODE ELSE d

(***************************************************************************)
(* Documents.  A document is [nlines, title, date, lines]: the number of   *)
(* physical lines of the file, the title line, the text after "Date:" on   *)
(* the second line (<<>> when there is none) and the non-blank body lines, *)
(* each [role, sents] with role "host", "scientist" or "none" (no speaker  *)
(* prefix).  A sentence is [line, k, plain, amp].                          *)
(***************************************************************************)
SentLen(s) == s.plain + s.amp

\* len(html.escape(seg)): "&" becomes "&amp;"
EscapedLen(s) == s.plain + 5 * s.amp

\* len of the speaker prefix "Host: " / "Scientist: " of a body line
PrefixLen(role) == IF role = "host" THEN 6 ELSE IF role = "scientist" THEN 11 ELSE 0

\* len(body): the lines joined by "\n", the sentences of a line by one space
BodyLen(doc) ==
    SumSeq([i \in 1..Len(doc.lines) |->
              PrefixLen(doc.lines[i].role)
              + SumSeq([k \in 1..Len(doc.lines[i].sents) |-> SentLen(doc.lines[i].sents[k])])
              + (Len(doc.lines[i].sents) - 1)])
    + (IF doc.lines = <<>> THEN 0 ELSE Len(doc.lines) - 1)

\* parse_role_line: the voice of a body line
parse_role_line(role) == IF role = "scientist" THEN "sci" ELSE "host"

\* build_dialog_items: one (voice, sentences) item per non-blank line
build_dialog_items(doc) ==
    [i \in 1..Len(doc.lines) |->
        [voice |-> parse_role_line(doc.lines[i].role), sents |-> doc.lines[i].sents]]

\* the (voice, sentence) pairs of a list of items or of a chunk, in order
Pairs(groups) ==
    Concat([i \in 1..Len(groups) |->
              [k \in 1..Len(groups[i].sents) |->
                  [voice |-> groups[i].voice, s |-> groups[i].sents[k]]]])

(***************************************************************************)
(* chunk_dialog_items (lines 104-127).  The loop state is                  *)
(* [chunks, cur, sent_count, char_count].                                  *)
(***************************************************************************)
flush(st) ==
    IF st.cur # <<>>
    THEN [chunks |-> Append(st.chunks, st.cur), cur |-> <<>>, sent_count |-> 0, char_count |-> 0]
    ELSE st

\* lines 122-125 without the test of the last group's voice: always a new group
AddSentence_AlwaysNewGroup(cur, voice, s) ==
    Append(cur, [voice |-> voice, sents |-> <<s>>])

\* cur[-1][1].append(s) when the last group has this voice, else a new group
AddSentence(cur, voice, s) ==
    IF cur # <<>> /\ cur[Len(cur)].voice = voice
    THEN [cur EXCEPT ![Len(cur)].sents = Append(@, s)]
    ELSE Append(cur, [voice |-> voice, sents |-> <<s>>])

\* ChunkStep with the sentence limit tested after the fact (sent_count > max_sents)
ChunkStep_LateCount(st, p, max_sents, max_chars) ==
    LET s_len == SentLen(p.s)
        st1 == IF (st.sent_count > max_sents) \/ (st.char_count + s_len > max_chars)
               THEN flush(st) ELSE st
    IN  [chunks |-> st1.chunks,
         cur |-> AddSentence(st1.cur, p.voice, p.s),
         sent_count |-> st1.sent_count + 1,
         char_count |-> st1.char_count + s_len]

\* ChunkStep that closes the chunk one sentence early (sent_count + 1 >= max_sents)
ChunkStep_EagerFlush(st, p, max_sents, max_chars) ==
    LET s_len == SentLen(p.s)
        st1 == IF (st.sent_count + 1 >= max_sents) \/ (st.char_count + s_len > max_chars)
               THEN flush(st) ELSE st
    IN  [chunks |-> st1.chunks,
         cur |-> AddSentence(st1.cur, p.voice, p.s),
         sent_count |-> st1.sent_count + 1,
         char_count |-> st1.char_count + s_len]

\* one iteration of the inner loop (lines 117-125)
ChunkStep(st, p, max_sents, max_chars) ==
    LET s_len == SentLen(p.s)
        st1 == IF (st.sent_count + 1 > max_sents) \/ (st.char_count + s_len > max_chars)
               THEN flush(st) ELSE st
    IN  [chunks |-> st1.chunks,
         cur |-> AddSentence(st1.cur, p.voice, p.s),
         sent_count |-> st1.sent_count + 1,
         char_count |-> st1.char_count + s_len]

RECURSIVE ChunkLoop(_, _, _, _)
ChunkLoop(st, pairs, max_sents, max_chars) ==
    IF pairs = <<>> THEN st
    ELSE ChunkLoop(ChunkStep(st, Head(pairs), max_sents, max_chars),
                   Tail(pairs), max_sents, max_chars)

chunk_dialog_items(items, max_sents, max_chars) ==
    flush(ChunkLoop([chunks |-> <<>>, cur |-> <<>>, sent_count |-> 0, char_count |-> 0],
                    Pairs(items), max_sents, max_chars)).chunks

(***************************************************************************)
(* build_ssml_from_chunk (lines 129-139), by the length of its result.     *)
(***************************************************************************)
VoiceNameLen(v) == IF v = "host" THEN VOICE_HOST_LEN ELSE VOICE_SCI_LEN

\* len('<speak version="1.0" xml:lang="en-US">') + len("</speak>")
SpeakWrapLen == 38 + 8

\* len('<voice name="') + len('"><prosody rate="') + len('">') + len("</prosody></voice>")
VoiceWrapLen == 13 + 17 + 2 + 18

\* len("<s>") + len("</s><break time='") + len("ms'/>")
SentWrapLen == 3 + 17 + 5

SsmlLen(chunk, break_ms) ==
    SpeakWrapLen
    + SumSeq([g \in 1..Len(chunk) |->
                VoiceWrapLen + VoiceNameLen(chunk[g].voice) + RATE_LEN
                + SumSeq([k \in 1..Len(chunk[g].sents) |->
                            SentWrapLen + Len(Digits(break_ms)) + EscapedLen(chunk[g].sents[k])])])

(***************************************************************************)
(* split_chunk_in_half (lines 141-145) and one pass of the size-guard loop *)
(* of process_file (lines 232-241).                                        *)
(***************************************************************************)
\* split_chunk_in_half with the second half taken from mid + 1 (chunk[mid+1:])
split_chunk_in_half_SkipMid(chunk) ==
    IF Len(chunk) <= 1 THEN <<chunk>>
    ELSE LET mid == Len(chunk) \div 2
         IN  <<SubSeq(chunk, 1, mid), SubSeq(chunk, mid + 2, Len(chunk))>>

\* split_chunk_in_half with the middle rounded up ((len(chunk) + 1) // 2)
split_chunk_in_half_CeilMid(chunk) ==
    IF Len(chunk) <= 1 THEN <<chunk>>
    ELSE LET mid == (Len(chunk) + 1) \div 2
         IN  <<SubSeq(chunk, 1, mid), SubSeq(chunk, mid + 1, Len(chunk))>>

split_chunk_in_half(chunk) ==
    IF Len(chunk) <= 1 THEN <<chunk>>
    ELSE LET mid == Len(chunk) \div 2
         IN  <<SubSeq(chunk, 1, mid), SubSeq(chunk, mid + 1, Len(chunk))>>

TooLong(c, break_ms) == SsmlLen(c, break_ms) > SSML_MAX_LEN

\* new_subs after the for loop over subs
GuardNewSubs(ss, break_ms) ==
    Concat([i \in 1..Len(ss) |->
              IF TooLong(ss[i], break_ms) THEN split_chunk_in_half(ss[i]) ELSE <<ss[i]>>])

\* need_split never set: the loop is left after its first pass
GuardNeedSplit_Unset(ss, break_ms) == FALSE

\* need_split after the for loop over subs
GuardNeedSplit(ss, break_ms) == \E i \in 1..Len(ss) : TooLong(ss[i], break_ms)

(***************************************************************************)
(* File names (process_file lines 206-220 and 247-248, main lines 348-349).*)
(* A path is the code points of its file name; all outputs share out_dir.  *)
(***************************************************************************)
\* datetime.date.today().isoformat() on the day of the run, "2026-11-01"
TodayIso == <<50, 48, 50, 54, 45, 49, 49, 45, 48, 49>>

\* date.replace("-", "")
RemoveDashes(d) == SelectSeq(d, LAMBDA c : c # 45)

\* the day after, "2026-11-02"
NextDayIso == <<50, 48, 50, 54, 45, 49, 49, 45, 48, 50>>

\* base_out with the date of the run whether the file has a Date line or not
BaseStem_RunDate(doc, today) ==
    LET title == Strip(IF doc.title = <<>> THEN <<69>> \o Tail(EPISODE) ELSE doc.title, WHITESPACE)
    IN  RemoveDashes(today) \o UNDERSCORE \o slugify(title)

\* the stem of base_out: safe_date + "_" + slugify(title); today is what
\* datetime.date.today().isoformat() returns in this run
BaseStem(doc, today) ==
    LET title == Strip(IF doc.title = <<>> THEN <<69>> \o Tail(EPISODE) ELSE doc.title, WHITESPACE)
        date == IF Strip(doc.date, WHITESPACE) = <<>> THEN today ELSE Strip(doc.date, WHITESPACE)
    IN  RemoveDashes(date) \o UNDERSCORE \o slugify(title)

\* out_path of unit j of chunk idx (lines 247-248)
OutPath(doc, today, nchunks, nsubs, idx_, j_) ==
    IF nchunks = 1 /\ nsubs = 1
    THEN BaseStem(doc, today) \o DOT_MP3
    ELSE BaseStem(doc, today) \o PART \o Digits(idx_) \o UNDERSCORE \o Digits(j_) \o DOT_MP3

\* pathlib's stem of an output path: the name without its ".mp3"
Stem(path) == SubSeq(path, 1, Len(path) - Len(DOT_MP3))

RECURSIVE StripDigits(_)
StripDigits(s) ==
    IF s # <<>> /\ IsDigit(s[Len(s)]) THEN StripDigits(SubSeq(s, 1, Len(s) - 1)) ELSE s

\* re.sub(r"_part\d+_\d+$", "", stem)
StripPartSuffix(stem) ==
    LET a == StripDigits(stem)
        b == IF a # <<>> /\ a[Len(a)] = 95 THEN SubSeq(a, 1, Len(a) - 1) ELSE a
        c == StripDigits(b)
    IN  IF Len(a) < Len(stem) /\ Len(b) < Len(a) /\ Len(c) < Len(b) /\ EndsWith(c, PART)
        THEN SubSeq(c, 1, Len(c) - Len(PART))
        ELSE stem

\* sorted(outs, key=lambda pth: pth.name): a stable sort in string order
RECURSIVE Insert(_, _)
Insert(sorted, p) ==
    IF sorted = <<>> THEN <<p>>
    ELSE IF StrLess(p, Head(sorted)) THEN <<p>> \o sorted
    ELSE <<Head(sorted)>> \o Insert(Tail(sorted), p)

RECURSIVE SortByName(_)
SortByName(outs) ==
    IF outs = <<>> THEN <<>>
    ELSE Insert(SortByName(SubSeq(outs, 1, Len(outs) - 1)), outs[Len(outs)])

\* the name of the merged episode (line 349)
MergedPath(outs_sorted) == StripPartSuffix(Stem(outs_sorted[1])) \o FULL_MP3

(***************************************************************************)
(* The synthesis service.  A result is "Completed" or a cancellation; a    *)
(* cancellation's error text is modelled by the set of words of interest   *)
(* its lower-cased text contains.                                          *)
(***************************************************************************)
COMPLETED == [reason |-> "Completed", err |-> {}]

ERR_THROTTLE == {"429", "throttle"}
ERR_QUOTA == {"quota", "exceeded"}
ERR_BAD_SSML == {"ssml", "parse"}
ERR_BAD_VOICE == {"voice", "unsupported"}

Cancellations == {[reason |-> "Canceled", err |-> e] :
                     e \in {ERR_THROTTLE, ERR_QUOTA, ERR_BAD_SSML, ERR_BAD_VOICE}}

ServiceResults == {COMPLETED} \cup Cancellations

\* the keywords of lines 184-186
RETRIABLE_KEYWORDS ==
    {"timeout", "throttle", "429", "temporarily", "connection", "network",
     "quota", "rate limit", "server busy"}

\* retriable (lines 184-186): some keyword occurs in the error text
Retriable(res) == res.err \cap RETRIABLE_KEYWORDS # {}

\* line 188 with one retry too many
ShouldRetry_OffByOne(att, retries, res) == att <= retries + 1 /\ Retriable(res)

\* line 188 without the test of the error text
ShouldRetry_AnyCancellation(att, retries, res) == att <= retries

\* the condition of line 188
ShouldRetry(att, retries, res) == att <= retries /\ Retriable(res)

\* line 189 with 2 ** attempt
BackoffDelay_FromTwo(base_delay, att) == base_delay * Pow2(att)

\* line 189 without the power of two: the same delay before every retry
BackoffDelay_Constant(base_delay, att) == base_delay

\* base_delay * (2 ** (attempt - 1)), line 189 without its jitter
BackoffDelay(base_delay, att) == base_delay * Pow2(att - 1)

\* random.uniform(0, jitter): its two ends
JitterChoices(jitter) == {0, jitter}

(***************************************************************************)
(* State.                                                                  *)
(***************************************************************************)
VARIABLES
    args,            \* the parsed command line, whether the credentials are set, today's date
    files,           \* sorted(glob.glob(args.input_glob)), as documents
    pc,              \* where the program is
    fi,              \* main: index of the file of the for loop
    total_parts,     \* main
    merged_outputs,  \* main
    exit_code,       \* the process's exit status, -1 while it runs
    merge_parts,     \* the part list of the last call of the merge utility
    chunks,          \* process_file
    idx,             \* process_file: index of the chunk (from 1)
    subs,            \* process_file: the units of the chunk
    passes,          \* passes of the size-guard loop made for this chunk
    j,               \* process_file: index of the unit in subs (from 1)
    outputs,         \* process_file
    units,           \* the units of this document that left the size guard, in order
    placeholder_failed, \* the silence placeholder of some unit of this document failed
    disk,            \* the output files: path -> index of the document that wrote it last
    seg_failed,      \* some unit of this run failed terminally ("[FAIL segment]")
    attempt,         \* synth_ssml_with_retry
    result,          \* synth_ssml_with_retry: the last result of the service
    requests,        \* speak_ssml_async calls made for this unit
    sleeps           \* time.sleep calls made for this unit: [delay, jitter] each

vars == <<args, files, pc, fi, total_parts, merged_outputs, exit_code, merge_parts,
          chunks, idx, subs, passes, j, outputs, units, placeholder_failed, disk,
          seg_failed, attempt, result, requests, sleeps>>

mainVars == <<fi, total_parts, merged_outputs, exit_code, merge_parts>>
fileVars == <<chunks, idx, subs, passes, j, outputs, units, placeholder_failed>>
synthVars == <<attempt, result, requests, sleeps>>

NoResult == [reason |-> "None", err |-> {}]

\* the output directory after a file was written (or overwritten) at path
WriteFile(d, path, owner) ==
    [q \in DOMAIN d \cup {path} |-> IF q = path THEN owner ELSE d[q]]

(***************************************************************************)
(* main, lines 322-332: no file matched the glob -> exit(1).               *)
(***************************************************************************)
MainStart ==
    /\ pc = "start"
    /\ IF files = <<>>
       THEN /\ pc' = "exit"
            /\ exit_code' = 1
            /\ fi' = fi
       ELSE /\ pc' = "file"
            /\ exit_code' = exit_code
            /\ fi' = 1
    /\ UNCHANGED <<args, files, total_parts, merged_outputs, merge_parts,
                   fileVars, disk, seg_failed, synthVars>>

(***************************************************************************)
(* process_file, lines 201-229: the early returns, the planner and the     *)
(* start of the loop over the chunks.                                      *)
(***************************************************************************)
PlanChunks(doc, a) ==
    chunk_dialog_items(build_dialog_items(doc), a.max_sents, a.max_chars)

ProcessFile ==
    /\ pc = "file"
    /\ fi <= Len(files)
    /\ LET doc == files[fi]
           cs == PlanChunks(doc, args)
       IN  IF doc.nlines < MIN_LINES \/ BodyLen(doc) < MIN_BODY
           THEN /\ pc' = "returned"
                /\ chunks' = <<>>
                /\ subs' = <<>>
                /\ idx' = 0
           ELSE /\ pc' = "guard"
                /\ chunks' = cs
                /\ subs' = <<cs[1]>>
                /\ idx' = 1
    /\ passes' = 0
    /\ j' = 0
    /\ outputs' = <<>>
    /\ units' = <<>>
    /\ placeholder_failed' = FALSE
    /\ UNCHANGED <<args, files, mainVars, disk, seg_failed, synthVars>>

(***************************************************************************)
(* process_file, lines 231-243: one pass of the size-guard loop.  The loop *)
(* is left when the pass found no unit over SSML_MAX_LEN.                  *)
(***************************************************************************)
GuardPass ==
    /\ pc = "guard"
    /\ subs' = GuardNewSubs(subs, args.break_ms)
    /\ passes' = Min(passes + 1, MaxPasses)
    /\ IF GuardNeedSplit(subs, args.break_ms)
       THEN /\ pc' = "guard"
            /\ j' = j
            /\ units' = units
       ELSE /\ pc' = "unit"
            /\ j' = 1
            /\ units' = units \o GuardNewSubs(subs, args.break_ms)
    /\ UNCHANGED <<args, files, mainVars, chunks, idx, outputs, placeholder_failed,
                   disk, seg_failed, synthVars>>

\* synth_ssml_with_retry without lines 165-166: the request is made whatever
\* the length of the markup
SynthBegin_NoLengthCheck ==
    /\ pc = "unit"
    /\ IF ~args.creds
       THEN /\ pc' = "exit"
            /\ exit_code' = 1
       ELSE /\ pc' = "attempt"
            /\ exit_code' = exit_code
    /\ attempt' = 0
    /\ requests' = 0
    /\ sleeps' = <<>>
    /\ result' = NoResult
    /\ UNCHANGED <<args, files, fi, total_parts, merged_outputs, merge_parts,
                   fileVars, disk, seg_failed>>

(***************************************************************************)
(* process_file, lines 245-249, and synth_ssml_with_retry, lines 150-168:  *)
(* the unit is rendered; without credentials the program exits             *)
(* (SystemExit is not caught by "except Exception"); markup over           *)
(* SSML_MAX_LEN raises before any request.                                 *)
(***************************************************************************)
SynthBegin ==
    /\ pc = "unit"
    /\ IF ~args.creds
       THEN /\ pc' = "exit"
            /\ exit_code' = 1
       ELSE /\ pc' = IF SsmlLen(subs[j], args.break_ms) > SSML_MAX_LEN
                     THEN "failed" ELSE "attempt"
            /\ exit_code' = exit_code
    /\ attempt' = 0
    /\ requests' = 0
    /\ sleeps' = <<>>
    /\ result' = NoResult
    /\ UNCHANGED <<args, files, fi, total_parts, merged_outputs, merge_parts,
                   fileVars, disk, seg_failed>>

(***************************************************************************)
(* synth_ssml_with_retry, lines 170-172: one request to the service.       *)
(***************************************************************************)
SpeakSsml ==
    /\ pc = "attempt"
    /\ attempt' = attempt + 1
    /\ requests' = requests + 1
    /\ \E r \in ServiceResults : result' = r
    /\ pc' = "result"
    /\ UNCHANGED <<args, files, mainVars, fileVars, disk, seg_failed, sleeps>>

\* the path of the unit in hand
CurOutPath == OutPath(files[fi], args.today, Len(chunks), Len(subs), idx, j)

\* the end of the body of the loop over subs: the next unit, the next chunk, or return
Advance ==
    IF j < Len(subs)
    THEN /\ pc' = "unit"
         /\ j' = j + 1
         /\ UNCHANGED <<idx, subs, passes>>
    ELSE IF idx < Len(chunks)
    THEN /\ pc' = "guard"
         /\ idx' = idx + 1
         /\ subs' = <<chunks[idx + 1]>>
         /\ passes' = 0
         /\ j' = 0
    ELSE /\ pc' = "returned"
         /\ UNCHANGED <<idx, subs, passes, j>>

(***************************************************************************)
(* Lines 173-174 and 258-259: the synthesis completed, the path is kept.   *)
(***************************************************************************)
SynthSuccess ==
    /\ pc = "result"
    /\ result = COMPLETED
    /\ outputs' = Append(outputs, CurOutPath)
    /\ disk' = WriteFile(disk, CurOutPath, fi)
    /\ Advance
    /\ UNCHANGED <<args, files, mainVars, chunks, units, placeholder_failed,
                   seg_failed, synthVars>>

\* lines 188-192 without the time.sleep of line 191: the next attempt at once
SynthRetry_NoSleep ==
    /\ pc = "result"
    /\ result # COMPLETED
    /\ ShouldRetry(attempt, args.retries, result)
    /\ pc' = "attempt"
    /\ UNCHANGED <<args, files, mainVars, fileVars, disk, seg_failed, synthVars>>

(***************************************************************************)
(* Lines 188-192: a retriable cancellation within the retries: sleep, then *)
(* the next attempt.                                                       *)
(***************************************************************************)
SynthRetry ==
    /\ pc = "result"
    /\ result # COMPLETED
    /\ ShouldRetry(attempt, args.retries, result)
    /\ \E u \in JitterChoices(args.retry_jitter) :
          sleeps' = Append(sleeps, [delay |-> BackoffDelay(args.retry_base, attempt) + u,
                                    jitter |-> u])
    /\ pc' = "attempt"
    /\ UNCHANGED <<args, files, mainVars, fileVars, disk, seg_failed,
                   attempt, result, requests>>

(***************************************************************************)
(* Line 195: any other cancellation raises.                                *)
(***************************************************************************)
SynthRaise ==
    /\ pc = "result"
    /\ result # COMPLETED
    /\ ~ShouldRetry(attempt, args.retries, result)
    /\ pc' = "failed"
    /\ UNCHANGED <<args, files, mainVars, fileVars, disk, seg_failed, synthVars>>

\* the except branch without line 269: the placeholder is written, its path is
\* not kept
SegmentFailed_PathNotKept ==
    /\ pc = "failed"
    /\ seg_failed' = TRUE
    /\ disk' = IF args.silence_on_fail THEN WriteFile(disk, CurOutPath, fi) ELSE disk
    /\ Advance
    /\ UNCHANGED <<args, files, mainVars, chunks, outputs, units, placeholder_failed,
                   synthVars>>

(***************************************************************************)
(* process_file, lines 260-273: the except branch.  With silence_on_fail   *)
(* ffmpeg writes a placeholder, which may itself fail.                     *)
(***************************************************************************)
SegmentFailed ==
    /\ pc = "failed"
    /\ seg_failed' = TRUE
    /\ \E wrote \in (IF args.silence_on_fail THEN BOOLEAN ELSE {FALSE}) :
          /\ outputs' = IF wrote THEN Append(outputs, CurOutPath) ELSE outputs
          /\ disk' = IF wrote THEN WriteFile(disk, CurOutPath, fi) ELSE disk
          /\ placeholder_failed' = (placeholder_failed \/ (args.silence_on_fail /\ ~wrote))
    /\ Advance
    /\ UNCHANGED <<args, files, mainVars, chunks, units, synthVars>>

(***************************************************************************)
(* main, lines 345-349: process_file returned; the parts are counted and,  *)
(* with --merge and more than one part, sorted by name for the merge.      *)
(***************************************************************************)
ProcessFileReturned ==
    /\ pc = "returned"
    /\ total_parts' = total_parts + Len(outputs)
    /\ IF args.merge /\ Len(outputs) > 1
       THEN /\ pc' = "merge"
            /\ merge_parts' = SortByName(outputs)
            /\ fi' = fi
       ELSE /\ pc' = "file"
            /\ merge_parts' = merge_parts
            /\ fi' = fi + 1
    /\ UNCHANGED <<args, files, merged_outputs, exit_code, fileVars, disk,
                   seg_failed, synthVars>>

\* merge_parts_with_ffmpeg with a clean-up in its except branch: the parts are
\* unlinked when the utility fails
MergeParts_UnlinksParts ==
    /\ pc = "merge"
    /\ \E ok \in BOOLEAN :
          IF ok /\ merge_parts # <<>>
          THEN /\ merged_outputs' = Append(merged_outputs, MergedPath(merge_parts))
               /\ disk' = WriteFile(disk, MergedPath(merge_parts), fi)
          ELSE /\ merged_outputs' = merged_outputs
               /\ disk' = [q \in {r \in DOMAIN disk :
                                     \A k \in 1..Len(merge_parts) : merge_parts[k] # r}
                              |-> disk[q]]
    /\ fi' = fi + 1
    /\ pc' = "file"
    /\ UNCHANGED <<args, files, total_parts, exit_code, merge_parts, fileVars,
                   seg_failed, synthVars>>

(***************************************************************************)
(* merge_parts_with_ffmpeg, lines 278-296, and main, lines 350-351: the    *)
(* utility succeeds or fails; the episode is recorded when it succeeds.    *)
(***************************************************************************)
MergeParts ==
    /\ pc = "merge"
    /\ \E ok \in BOOLEAN :
          IF ok /\ merge_parts # <<>>
          THEN /\ merged_outputs' = Append(merged_outputs, MergedPath(merge_parts))
               /\ disk' = WriteFile(disk, MergedPath(merge_parts), fi)
          ELSE UNCHANGED <<merged_outputs, disk>>
    /\ fi' = fi + 1
    /\ pc' = "file"
    /\ UNCHANGED <<args, files, total_parts, exit_code, merge_parts, fileVars,
                   seg_failed, synthVars>>

(***************************************************************************)
(* main, lines 353-368: after the last file, exit(1) when no part was      *)
(* produced, else the normal exit.                                         *)
(***************************************************************************)
MainFinish ==
    /\ pc = "file"
    /\ fi > Len(files)
    /\ exit_code' = IF total_parts = 0 THEN 1 ELSE 0
    /\ pc' = "exit"
    /\ UNCHANGED <<args, files, fi, total_parts, merged_outputs, merge_parts,
                   fileVars, disk, seg_failed, synthVars>>

(***************************************************************************)
(* Inputs.                                                                 *)
(***************************************************************************)
Sent(line, k, plain, amp) == [line |-> line, k |-> k, plain |-> plain, amp |-> amp]

DATE_20240301 == <<50, 48, 50, 52, 45, 48, 51, 45, 48, 49>>
\* "Ep " followed by a digit
Title(n) == <<69, 112, 32>> \o Digits(n)

\* a dialogue of two short lines: one chunk, one unit
DocDialog ==
    [nlines |-> 4, title |-> Title(1), date |-> DATE_20240301,
     lines |-> <<[role |-> "host", sents |-> <<Sent(1, 1, 100, 0)>>],
                 [role |-> "scientist", sents |-> <<Sent(2, 1, 100, 0)>>]>>]

\* 1500 characters: a chunk that lands on the 900 of --max-chars, and a second
\* chunk; no Date line
DocTwoChunks ==
    [nlines |-> 3, title |-> Title(2), date |-> <<>>,
     lines |-> <<[role |-> "host", sents |-> <<Sent(1, 1, 300, 0), Sent(1, 2, 300, 0)>>],
                 [role |-> "scientist", sents |-> <<Sent(2, 1, 300, 0), Sent(2, 2, 600, 0)>>]>>]

\* 900 characters, all '&', in two groups: one chunk whose markup is over the
\* ceiling; then a second chunk
DocAmpersands ==
    [nlines |-> 5, title |-> Title(3), date |-> DATE_20240301,
     lines |-> <<[role |-> "host", sents |-> <<Sent(1, 1, 0, 450)>>],
                 [role |-> "scientist", sents |-> <<Sent(2, 1, 0, 225), Sent(2, 2, 0, 225)>>],
                 [role |-> "host", sents |-> <<Sent(3, 1, 600, 0)>>]>>]

\* one sentence whose markup alone is over the ceiling
DocLongSentence ==
    [nlines |-> 3, title |-> Title(4), date |-> DATE_20240301,
     lines |-> <<[role |-> "none", sents |-> <<Sent(1, 1, 4600, 0)>>]>>]

\* a body under MIN_BODY characters
DocShort ==
    [nlines |-> 3, title |-> Title(5), date |-> DATE_20240301,
     lines |-> <<[role |-> "host", sents |-> <<Sent(1, 1, 5, 0)>>]>>]

\* the input files there can be, in the order of their names
Catalogue == <<DocDialog, DocTwoChunks, DocAmpersands, DocLongSentence, DocShort>>

\* the sub-sequence of a sequence at the indices of a set
RECURSIVE Pick(_, _, _)
Pick(seq, S, i) ==
    IF i > Len(seq) THEN <<>>
    ELSE (IF i \in S THEN <<seq[i]>> ELSE <<>>) \o Pick(seq, S, i + 1)

\* what the glob can match: up to MaxFiles files of the catalogue, sorted
FileLists ==
    {Pick(Catalogue, S, 1) : S \in {T \in SUBSET (1..Len(Catalogue)) : Cardinality(T) <= MaxFiles}}

DefaultArgs ==
    [max_sents |-> DEFAULT_MAX_SENTS, max_chars |-> DEFAULT_MAX_CHARS,
     break_ms |-> DEFAULT_BREAK_MS, merge |-> TRUE, silence_on_fail |-> FALSE,
     retries |-> 1, retry_base |-> RETRY_BASE_MS, retry_jitter |-> RETRY_JITTER_MS,
     creds |-> TRUE, today |-> TodayIso]

\* --retry-base: the default 0.6 s, and 40 s
RetryBases == {RETRY_BASE_MS, 40 * 1000}

ArgSets ==
    {[DefaultArgs EXCEPT !.merge = m, !.silence_on_fail = s, !.retries = r,
                         !.retry_base = b, !.creds = c] :
        m \in BOOLEAN, s \in BOOLEAN, r \in 0..MaxRetries, b \in RetryBases, c \in BOOLEAN}

InitRun ==
    /\ pc = "start"
    /\ fi = 0
    /\ total_parts = 0
    /\ merged_outputs = <<>>
    /\ exit_code = -1
    /\ merge_parts = <<>>
    /\ chunks = <<>>
    /\ idx = 0
    /\ subs = <<>>
    /\ passes = 0
    /\ j = 0
    /\ outputs = <<>>
    /\ units = <<>>
    /\ placeholder_failed = FALSE
    /\ disk = <<>>
    /\ seg_failed = FALSE
    /\ attempt = 0
    /\ result = NoResult
    /\ requests = 0
    /\ sleeps = <<>>

Init ==
    /\ args \in ArgSets
    /\ files \in FileLists
    /\ InitRun

Next ==
    \/ MainStart
    \/ ProcessFile
    \/ GuardPass
    \/ SynthBegin
    \/ SpeakSsml
    \/ SynthSuccess
    \/ SynthRetry
    \/ SynthRaise
    \/ SegmentFailed
    \/ ProcessFileReturned
    \/ MergeParts
    \/ MainFinish

Spec == Init /\ [][Next]_vars

(***************************************************************************)
(* PlanSpec: the planner and the size guard of process_file on every       *)
(* document of up to MaxSents sentences, under several chunk limits.  A    *)
(* document is drawn as a sequence of tokens, one per sentence: its length *)
(* and whether it continues the line or starts a line of one speaker.      *)
(***************************************************************************)
PlanLens == {400, 2400}

PlanTokens == [brk : {"same", "host", "scientist"}, len : PlanLens]

RECURSIVE BuildLines(_, _)
BuildLines(tokens, lines) ==
    IF tokens = <<>> THEN lines
    ELSE LET t == Head(tokens)
             n == Len(lines)
         IN  IF t.brk = "same"
             THEN BuildLines(Tail(tokens),
                     [lines EXCEPT ![n].sents = Append(@, Sent(n, Len(@) + 1, t.len, 0))])
             ELSE BuildLines(Tail(tokens),
                     Append(lines, [role |-> t.brk, sents |-> <<Sent(n + 1, 1, t.len, 0)>>]))

PlanDocs ==
    {[nlines |-> 2 + Len(BuildLines(ts, <<>>)), title |-> Title(1), date |-> DATE_20240301,
      lines |-> BuildLines(ts, <<>>)] :
        ts \in {t \in UNION {[1..n -> PlanTokens] : n \in 1..MaxSents} : t[1].brk # "same"}}

PlanArgSets ==
    {[DefaultArgs EXCEPT !.max_sents = ms, !.max_chars = mc] :
        ms \in {1, 2, DEFAULT_MAX_SENTS}, mc \in {800, DEFAULT_MAX_CHARS, 10000}}

PlanInit ==
    /\ args \in PlanArgSets
    /\ \E d \in PlanDocs : files = <<d>>
    /\ InitRun

PlanNext ==
    \/ MainStart
    \/ ProcessFile
    \/ GuardPass

PlanSpec == PlanInit /\ [][PlanNext]_vars

(***************************************************************************)
(* LongSpec: the whole program on one document of LongChunks chunks.       *)
(***************************************************************************)
DocManyChunks ==
    [nlines |-> 2 + LongChunks, title |-> Title(6), date |-> DATE_20240301,
     lines |-> [i \in 1..LongChunks |->
                  [role |-> IF i % 2 = 1 THEN "host" ELSE "scientist",
                   sents |-> <<Sent(i, 1, 600, 0)>>]]]

LongInit ==
    /\ args \in {[DefaultArgs EXCEPT !.silence_on_fail = s] : s \in BOOLEAN}
    /\ files = <<DocManyChunks>>
    /\ InitRun

LongSpec == LongInit /\ [][Next]_vars

(***************************************************************************)
(* NameSpec: the whole program on two files, on either of two days.  The   *)
(* two files may be copies of one text, or differ only in the spelling of  *)
(* the title.                                                              *)
(***************************************************************************)
\* DocAmpersands under the title "EP 3?", which slugify maps to "ep-3" too
DocTitleVariant == [DocAmpersands EXCEPT !.title = <<69, 80, 32, 51, 63>>]

NameDocs == {DocDialog, DocTwoChunks, DocAmpersands, DocTitleVariant}

RunDates == {TodayIso, NextDayIso}

NameInit ==
    /\ args \in {[DefaultArgs EXCEPT !.silence_on_fail = s, !.today = d] :
                    s \in BOOLEAN, d \in RunDates}
    /\ \E a, b \in NameDocs : files = <<a, b>>
    /\ InitRun

NameSpec == NameInit /\ [][Next]_vars

(***************************************************************************)
(* SynthSpec: synth_ssml_with_retry called on the markup of a chunk as the *)
(* planner made it, whatever its length (no size guard before the call).   *)
(* The documents have one line of one sentence; the markup of that chunk   *)
(* has 144 characters more than the sentence.                              *)
(***************************************************************************)
DocOneSentence(n) ==
    [nlines |-> 3, title |-> Title(7), date |-> DATE_20240301,
     lines |-> <<[role |-> "host", sents |-> <<Sent(1, 1, n, 0)>>]>>]

\* sentences whose markup is short, at the ceiling, one over it and well over it
SynthLens == {100, SSML_MAX_LEN - 144, SSML_MAX_LEN - 143, 2 * SSML_MAX_LEN}

SynthInit ==
    /\ args \in ArgSets
    /\ \E n \in SynthLens : files = <<DocOneSentence(n)>>
    /\ pc = "unit"
    /\ fi = 1
    /\ chunks = PlanChunks(files[1], args)
    /\ idx = 1
    /\ subs = <<chunks[1]>>
    /\ j = 1
    /\ units = subs
    /\ total_parts = 0
    /\ merged_outputs = <<>>
    /\ exit_code = -1
    /\ merge_parts = <<>>
    /\ passes = 0
    /\ outputs = <<>>
    /\ placeholder_failed = FALSE
    /\ disk = <<>>
    /\ seg_failed = FALSE
    /\ attempt = 0
    /\ result = NoResult
    /\ requests = 0
    /\ sleeps = <<>>

SynthNext ==
    \/ SynthBegin
    \/ SpeakSsml
    \/ SynthSuccess
    \/ SynthRetry
    \/ SynthRaise

SynthSpec == SynthInit /\ [][SynthNext]_vars

(***************************************************************************)
(* Claims.                                                                 *)
(***************************************************************************)

\* C1: the size-guard loop of process_file terminates for every chunk.  The
\* loop is deterministic, so it terminates exactly when every pass that stays
\* in the loop makes progress: it leaves strictly more units than it found
\* (the number of units is bounded by the number of groups of the chunk).  A
\* pass that stays in the loop with the units it started from repeats forever.
C1_GuardLoopTerminates ==
    [][(pc = "guard" /\ pc' = "guard") => Len(subs') > Len(subs)]_vars

\* C2, as stated: for one unit, at most N = retries requests are issued
\* (read for N >= 1: with N = 0 the first request already exceeds it).
C2_AtMostRetriesRequests ==
    args.retries >= 1 => requests <= args.retries

\* C2, amended: for one unit, at most retries + 1 requests are issued (the first
\* attempt and one per retry), whatever the service returns.
C2_AtMostRetriesPlusOneRequests ==
    requests <= args.retries + 1

\* C2 witness: a unit failed terminally on retriable cancellations only, after
\* retries + 1 requests and retries sleeps.
C2_Witness ==
    /\ pc = "failed"
    /\ args.retries >= 1
    /\ Retriable(result)
    /\ requests = args.retries + 1
    /\ Len(sleeps) = args.retries

\* int(digits) of a sequence of digit code points
RECURSIVE ParseNat(_)
ParseNat(ds) ==
    IF ds = <<>> THEN 0 ELSE 10 * ParseNat(SubSeq(ds, 1, Len(ds) - 1)) + (ds[Len(ds)] - 48)

\* <<chunk index, sub index>> of a fragment path "..._part{idx}_{j}.mp3"
PartIndex(path) ==
    LET st == Stem(path)
        a == StripDigits(st)
        b == SubSeq(a, 1, Len(a) - 1)
        c == StripDigits(b)
    IN  <<ParseNat(SubSeq(b, Len(c) + 1, Len(b))), ParseNat(SubSeq(st, Len(a) + 1, Len(st)))>>

IndexLess(x, y) == x[1] < y[1] \/ (x[1] = y[1] /\ x[2] < y[2])

\* C3: the fragments handed to the merge utility are in ascending numeric
\* order of (chunk index, sub index).
C3_MergeInDocumentOrder ==
    pc = "merge" =>
        \A a, b \in 1..Len(merge_parts) :
            a < b => IndexLess(PartIndex(merge_parts[a]), PartIndex(merge_parts[b]))

\* C4: a run in which some unit failed terminally, without --silence-on-fail,
\* ends with a non-zero exit status.
C4_FailureGivesNonZeroExit ==
    (pc = "exit" /\ seg_failed /\ ~args.silence_on_fail) => exit_code # 0

SentCount(chunk) == Len(Pairs(chunk))

CharCount(chunk) == SumSeq([i \in 1..Len(Pairs(chunk)) |-> SentLen(Pairs(chunk)[i].s)])

\* C5: every chunk of the planner has at most max_sents sentences and at most
\* max_chars characters, except a chunk of exactly one sentence that is itself
\* longer than max_chars.
C5_ChunksWithinLimits ==
    \A i \in 1..Len(chunks) :
        \/ SentCount(chunks[i]) <= args.max_sents /\ CharCount(chunks[i]) <= args.max_chars
        \/ SentCount(chunks[i]) = 1 /\ CharCount(chunks[i]) > args.max_chars

\* C5 witness: a first chunk that lands on both limits, followed by a chunk of
\* one sentence longer than max_chars.
C5_Witness ==
    /\ pc = "guard"
    /\ Len(chunks) >= 2
    /\ args.max_sents = 2
    /\ SentCount(chunks[1]) = args.max_sents
    /\ CharCount(chunks[1]) = args.max_chars
    /\ SentCount(chunks[2]) = 1
    /\ CharCount(chunks[2]) > args.max_chars

IsPrefix(s, t) == Len(s) <= Len(t) /\ SubSeq(t, 1, Len(s)) = s

\* the (voice, sentence) pairs of the units that left the size guard so far
UnitPairs == Pairs(Concat(units))

\* the (voice, sentence) pairs of the parser for the document in hand
ParsedPairs == Pairs(build_dialog_items(files[fi]))

\* C6: the (voice, sentence) pairs of the units, in (chunk, sub) order, are the
\* parser's sentences in document order: a prefix of them while the document
\* is processed, all of them when process_file returns.
C6_UnitsAreTheSentencesInOrder ==
    (pc \in {"guard", "unit", "attempt", "result", "failed", "returned"} /\ chunks # <<>>) =>
        /\ IsPrefix(UnitPairs, ParsedPairs)
        /\ pc = "returned" => UnitPairs = ParsedPairs

\* C6 witness: process_file returned for a document of several chunks, one of
\* them split by the size guard.
C6_Witness ==
    /\ pc = "returned"
    /\ Len(chunks) >= 2
    /\ Len(units) > Len(chunks)
    /\ UnitPairs = ParsedPairs

\* C7: every unit that left the size guard has markup of at most SSML_MAX_LEN
\* characters, or has a single group.
C7_UnitsWithinCeilingOrSingleGroup ==
    \A i \in 1..Len(units) :
        SsmlLen(units[i], args.break_ms) <= SSML_MAX_LEN \/ Len(units[i]) = 1

\* C7 witness: a chunk left the size guard after two rounds of bisection.
C7_Witness ==
    /\ pc = "unit"
    /\ passes >= 3
    /\ Len(units) >= 4

\* what the unit's call of synth_ssml_with_retry did so far is left as it is
NoRetryStep == pc' = "failed" /\ requests' = requests /\ sleeps' = sleeps

EpisodePath(doc) == BaseStem(doc, args.today) \o FULL_MP3

\* C9: with --merge, a document that produced exactly one fragment has its
\* episode among the merged outputs once main is done with it.
C9_SingleFragmentYieldsEpisode ==
    (pc = "file" /\ fi > 1 /\ args.merge /\ Len(outputs) = 1) =>
        \E k \in 1..Len(merged_outputs) : merged_outputs[k] = EpisodePath(files[fi - 1])

\* the maximum delay the specification recommends, 60 s
MaxDelayMs == 60 * 1000

\* C10, as stated: no delay slept before a retry exceeds the maximum delay.
C10_DelayCapped ==
    \A i \in 1..Len(sleeps) : sleeps[i].delay <= MaxDelayMs

\* C10, amended: no delay slept before a retry exceeds
\* base_delay * 2^(retries - 1) + jitter, the delay of the last retry.
C10_DelayBoundedByLastRetry ==
    \A i \in 1..Len(sleeps) :
        sleeps[i].delay <= args.retry_base * Pow2(args.retries - 1) + args.retry_jitter

\* C10 witness: the last retry of a unit slept the bound, which is over 60 s.
C10_Witness ==
    /\ args.retries >= 2
    /\ Len(sleeps) = args.retries
    /\ sleeps[Len(sleeps)].delay = args.retry_base * Pow2(args.retries - 1) + args.retry_jitter
    /\ sleeps[Len(sleeps)].delay > MaxDelayMs

\* C11: when the first k attempts of a unit end in retriable cancellations and
\* attempt k + 1 completes, exactly k sleeps occurred, one after each
\* cancellation and before the next request, with k <= retries, and the call
\* returns success: the fragment's path is added to the outputs of the document.
C11_RetriesThenSuccess ==
    [][/\ pc = "attempt" => Len(sleeps) = requests
       /\ (pc = "result" /\ result = COMPLETED) =>
              /\ Len(sleeps) = requests - 1
              /\ Len(sleeps) <= args.retries
              /\ outputs' = Append(outputs, CurOutPath)
              /\ sleeps' = sleeps
              /\ requests' = requests]_vars

\* C11 witness: a unit completed on its third attempt, after two retriable
\* cancellations and two sleeps, and its path was kept.
C11_Witness ==
    /\ pc \in {"unit", "guard", "returned"}
    /\ result = COMPLETED
    /\ args.retries >= 2
    /\ requests = args.retries + 1
    /\ Len(sleeps) = args.retries
    /\ outputs # <<>>

\* the recursive rule of the size guard: a chunk within the ceiling is returned
\* unchanged as a singleton; otherwise its groups are cut at index floor(g / 2)
\* and each half is treated independently, the results concatenated in order
RECURSIVE RecSplit(_, _)
RecSplit(c, break_ms) ==
    IF SsmlLen(c, break_ms) <= SSML_MAX_LEN THEN <<c>>
    ELSE LET g == Len(c)
             h == g \div 2
         IN  RecSplit([i \in 1..h |-> c[i]], break_ms)
             \o RecSplit([i \in 1..(g - h) |-> c[h + i]], break_ms)

\* the expected paths of the units of a document, in unit order: chunk by
\* chunk, the units of the chunk in order
ExpectedPaths(doc, cs) ==
    Concat([i \in 1..Len(cs) |->
              LET us == RecSplit(cs[i], args.break_ms)
              IN  [k \in 1..Len(us) |-> OutPath(doc, args.today, Len(cs), Len(us), i, k)]])

\* C12: with --silence-on-fail and every placeholder written, process_file
\* returns exactly one path per rendered unit, the unit's expected path, in
\* unit order, whatever the synthesis outcomes; without the option a unit that
\* failed terminally adds no path and no file is written for it.
C12_OnePathPerUnit ==
    [][/\ (pc # "returned" /\ pc' = "returned"
            /\ args.silence_on_fail /\ ~placeholder_failed')
          => outputs' = ExpectedPaths(files[fi], chunks')
       /\ (pc = "failed" /\ ~args.silence_on_fail)
          => (outputs' = outputs /\ disk' = disk)]_vars

\* C12 witness: with --silence-on-fail, process_file returned the expected
\* paths of a document of three units, one of them at least a placeholder.
C12_Witness ==
    /\ pc = "returned"
    /\ fi = 1
    /\ args.silence_on_fail
    /\ seg_failed
    /\ ~placeholder_failed
    /\ Len(units) = 3
    /\ outputs = ExpectedPaths(files[fi], chunks)

\* the file has a Date line with a date on it
HasDate(doc) == Strip(doc.date, WHITESPACE) # <<>>

\* the chunks, the name of the unit in hand and the name of the episode are
\* what a run of the same file under the same options on day d gives
SameNamesOn(d) ==
    /\ (pc \in {"guard", "unit", "attempt", "result", "failed", "returned"} /\ chunks # <<>>)
          => chunks = PlanChunks(files[fi], [args EXCEPT !.today = d])
    /\ pc \in {"attempt", "result", "failed"}
          => CurOutPath = OutPath(files[fi], d, Len(chunks), Len(subs), idx, j)
    /\ pc = "merge"
          => MergedPath(merge_parts) = BaseStem(files[fi], d) \o FULL_MP3

\* C13, as stated: a second run on the same file with the same options gives
\* the same chunk boundaries and the same fragment and episode names, on
\* whatever day it happens, also for a file without a Date line.
C13_SameNamesOnEveryRun ==
    \A d \in RunDates : SameNamesOn(d)

\* C13, amended: a second run gives the same chunk boundaries, and the same
\* fragment and episode names when the file has a Date line or the second run
\* happens on the same day.
C13_SameNamesWithDateOrSameDay ==
    \A d \in RunDates :
        (pc \in {"guard", "unit", "attempt", "result", "failed", "returned", "merge"}
           /\ (HasDate(files[fi]) \/ d = args.today))
        => SameNamesOn(d)

\* C13 witness: the fragments of a file with a Date line are handed to the
\* merge on a day that is not the day of the other run.
C13_Witness ==
    /\ pc = "merge"
    /\ HasDate(files[fi])
    /\ Len(merge_parts) >= 2
    /\ args.today = NextDayIso
    /\ SameNamesOn(TodayIso)

\* C14: no path written for one document is written for another document:
\* no step writes a file at a path where a file of another document is.
C14_PathsOfOneDocument ==
    [][\A p \in DOMAIN disk : disk'[p] = disk[p]]_vars

\* C15: when the merge utility fails for a document, the fragment files the
\* document produced are all still there, unchanged; no episode is recorded
\* for it; and main goes on to the next file.
C15_MergeFailureLeavesFragments ==
    [][(pc = "merge" /\ merged_outputs' = merged_outputs) =>
          /\ \A k \in 1..Len(outputs) :
                outputs[k] \in DOMAIN disk' /\ disk'[outputs[k]] = disk[outputs[k]]
          /\ outputs' = outputs
          /\ total_parts' = total_parts
          /\ pc' = "file"
          /\ fi' = fi + 1]_vars

\* C15 witness: the merge of the first document failed; its fragments are on
\* disk, no episode is recorded, and the second document produced fragments.
C15_Witness ==
    /\ pc = "returned"
    /\ fi = 2
    /\ merged_outputs = <<>>
    /\ Len(merge_parts) >= 2
    /\ \A k \in 1..Len(merge_parts) :
          merge_parts[k] \in DOMAIN disk /\ disk[merge_parts[k]] = 1
    /\ Len(outputs) >= 2

\* C16: no request is sent to the service with markup longer than
\* SSML_MAX_LEN: for such a unit synth_ssml_with_retry fails before its first
\* attempt.
C16_NoOversizeRequest ==
    (pc \in {"attempt", "result", "failed"}) =>
        LET n == SsmlLen(subs[j], args.break_ms)
        IN  /\ requests > 0 => n <= SSML_MAX_LEN
            /\ n > SSML_MAX_LEN => (pc = "failed" /\ attempt = 0 /\ requests = 0)

\* C16 witness: the call failed without a request for markup one character
\* over the ceiling.
C16_Witness ==
    /\ pc = "failed"
    /\ SsmlLen(subs[j], args.break_ms) = SSML_MAX_LEN + 1
    /\ requests = 0
    /\ result = NoResult

\* the first sentence of a chunk
FirstSentence(chunk) == Pairs(chunk)[1].s

\* adding the first sentence of the next chunk to chunk i would exceed max_chars
CharLimitBinds(i) ==
    CharCount(chunks[i]) + SentLen(FirstSentence(chunks[i + 1])) > args.max_chars

\* C17: the planner closes a chunk only when it must: for two consecutive
\* chunks, adding the first sentence of the later one to the earlier one would
\* exceed max_sents or max_chars.  Hence, when the character limit binds
\* nowhere, n sentences give ceil(n / max_sents) chunks, all of exactly
\* max_sents sentences except possibly the last.
C17_ChunksClosedOnlyWhenFull ==
    (chunks # <<>> /\ fi \in 1..Len(files)) =>
        /\ \A i \in 1..(Len(chunks) - 1) :
              SentCount(chunks[i]) + 1 > args.max_sents \/ CharLimitBinds(i)
        /\ (\A i \in 1..(Len(chunks) - 1) : ~CharLimitBinds(i)) =>
              /\ Len(chunks) = (Len(ParsedPairs) + args.max_sents - 1) \div args.max_sents
              /\ \A i \in 1..(Len(chunks) - 1) : SentCount(chunks[i]) = args.max_sents
              /\ SentCount(chunks[Len(chunks)]) <= args.max_sents

\* C17 witness: three sentences under max_sents = 2, the character limit not
\* binding: two chunks, of two sentences and of one.
C17_Witness ==
    /\ pc = "guard"
    /\ args.max_sents = 2
    /\ Len(ParsedPairs) = 3
    /\ Len(chunks) = 2
    /\ ~CharLimitBinds(1)
    /\ SentCount(chunks[1]) = 2
    /\ SentCount(chunks[2]) = 1

\* C18: for a chunk on which the size-guard loop of process_file ends, the
\* units the loop leaves are, in order, the units of the recursive rule
\* (singleton within the ceiling, else cut at floor(g / 2), halves treated
\* independently and concatenated in order).
C18_LoopYieldsRecursiveSplit ==
    (pc \in {"unit", "attempt", "result", "failed"}) =>
        subs = RecSplit(chunks[idx], args.break_ms)

\* C18 witness: a chunk of three groups left the loop as a unit of one group
\* and a unit of two (cut at floor(3 / 2) = 1, second half within the ceiling).
C18_Witness ==
    /\ pc = "unit"
    /\ Len(chunks[idx]) = 3
    /\ Len(subs) = 2
    /\ Len(subs[1]) = 1
    /\ Len(subs[2]) = 2
    /\ subs = RecSplit(chunks[idx], args.break_ms)

\* no group of the chunk is empty and no two adjacent groups have the same voice
WellGrouped(chunk) ==
    /\ \A g \in 1..Len(chunk) : chunk[g].sents # <<>>
    /\ \A g \in 1..(Len(chunk) - 1) : chunk[g].voice # chunk[g + 1].voice

\* some group of the chunk holds sentences of two dialogue lines
SharesGroup(chunk) ==
    \E g \in 1..Len(chunk) :
        \E a, b \in 1..Len(chunk[g].sents) : chunk[g].sents[a].line # chunk[g].sents[b].line

\* C19: in every chunk of chunk_dialog_items and in every unit the size guard
\* makes of it, no group is empty and no two adjacent groups have the same
\* voice (so the sentences of consecutive lines of one voice, within a chunk,
\* are in one group).
C19_GroupsAlternateAndNonEmpty ==
    /\ \A i \in 1..Len(chunks) : chunks[i] # <<>> /\ WellGrouped(chunks[i])
    /\ \A i \in 1..Len(units) : units[i] # <<>> /\ WellGrouped(units[i])

\* C19 witness: a chunk was split by the size guard into several units, one
\* of which has a group with the sentences of two lines of one speaker.
C19_Witness ==
    /\ pc = "unit"
    /\ Len(units) >= 2
    /\ \E i \in 1..Len(units) : SharesGroup(units[i])
    /\ \A i \in 1..Len(units) : WellGrouped(units[i])

\* the delay of the k-th sleep of the unit without its jitter
DelayLessJitter(k) == sleeps[k].delay - sleeps[k].jitter

\* C20: jitter aside, the delay slept after the k-th failed attempt of a unit
\* is base_delay * 2^(k-1): at least base_delay, and from one attempt to the
\* next never smaller (greater when base_delay > 0).
C20_DelayDoublesFromBase ==
    \A k \in 1..Len(sleeps) :
        /\ DelayLessJitter(k) = args.retry_base * 2^(k - 1)
        /\ DelayLessJitter(k) >= args.retry_base
        /\ k > 1 => /\ DelayLessJitter(k) >= DelayLessJitter(k - 1)
                    /\ args.retry_base > 0 => DelayLessJitter(k) > DelayLessJitter(k - 1)

\* C20 witness: two sleeps of one unit under the default base, the first with
\* the whole jitter and the second with none: 1.0 s, then 1.2 s.
C20_Witness ==
    /\ pc = "attempt"
    /\ args.retry_base = RETRY_BASE_MS
    /\ Len(sleeps) = 2
    /\ sleeps[1].jitter = args.retry_jitter
    /\ sleeps[2].jitter = 0
    /\ sleeps[1].delay = RETRY_BASE_MS + RETRY_JITTER_MS
    /\ sleeps[2].delay = 2 * RETRY_BASE_MS

==========================================================================
